---- MODULE Spec2Model ----
(***************************************************************************)
(* GeoHunt backend: the progress / unlock engine.                          *)
(*                                                                         *)
(* The state is the two MongoDB collections the engine works on (the       *)
(* treasure catalog and the per-player UserProgress documents) and the     *)
(* requests in flight.  Every `await` of a controller is one step of the   *)
(* request: between two awaits the code runs without interruption, and at  *)
(* an await any other request may run.  A document read by a request is a  *)
(* private in-memory copy; `save()` sends to the database only the paths   *)
(* the request modified ($push for the elements pushed on an array, $set   *)
(* for a scalar whose value changed), as Mongoose does.                    *)
(*                                                                         *)
(* The player's browser is modelled beside it: the App component with its  *)
(* proximity gate on the scan button, and the Scanner component with the   *)
(* validation of the payloads it decodes.                                  *)
(***************************************************************************)
EXTENDS Integers, FiniteSets, Sequences, TLC

\* ------------------------------------------------------------------ bounds
MaxOps == 3      \* requests (of any kind) that arrive in a run
MaxUnlocks == 5  \* unlock requests that arrive in a run over the seeded catalog
MaxFrames == 3   \* video frames the Scanner analyses in a run
MaxTaps == 3     \* taps on Start Scanning in one Scanner session

\* --------------------------------------------------------------- constants
PointsPerLevel == 200

Players == {"p1", "p2"}
Reqs == {"r1", "r2"}
Categories == {"academic", "social", "sports", "history"}
BadgeIds == {"explorer", "scholar", "socialite", "master"}
TreasureIds == {1, 2, 3, 4, 5}

\* The treasure ids the requests of Spec are tried with (1..3 seeded there, 4
\* the id of a created treasure), and the request bodies of the catalog
\* operations.
IdChoices == {1, 2, 3, 4}
PointChoices == {50}
CategoryChoices == {"academic", "social"}
UpdateBodies ==
    [field : {"points"}, value : PointChoices] \cup
    [field : {"category"}, value : CategoryChoices]

\* The mission briefings PUT /api/progress/briefing is tried with.
BriefingChoices == {"briefing"}

\* ------------------------------------------------------------ the documents
NoTreasure == [present |-> FALSE, points |-> 0, category |-> "none"]

Treasure(points, category) ==
    [present |-> TRUE, points |-> points, category |-> category]

\* Three of the seeded treasures: the Grand Library, the Student Union Plaza
\* and the Heritage Arch.
SeedCatalog ==
    [t \in TreasureIds |->
        CASE t = 1 -> Treasure(100, "academic")
          [] t = 2 -> Treasure(80, "social")
          [] t = 3 -> Treasure(200, "history")
          [] OTHER -> NoTreasure]

\* The five treasures the seeder inserts.
SeededCatalog ==
    [t \in TreasureIds |->
        CASE t = 1 -> Treasure(100, "academic")
          [] t = 2 -> Treasure(80, "social")
          [] t = 3 -> Treasure(200, "history")
          [] t = 4 -> Treasure(150, "academic")
          [] t = 5 -> Treasure(120, "sports")]

EmptyArray(S) == [x \in S |-> 0]

\* "No document" of the UserProgress collection.
NoRecord ==
    [exists |-> FALSE, unlockedTreasures |-> EmptyArray(TreasureIds),
     totalPoints |-> 0, level |-> 0, badges |-> EmptyArray(BadgeIds),
     missionBriefing |-> "none"]

\* The document every creation site writes.
FreshRecord ==
    [exists |-> TRUE, unlockedTreasures |-> EmptyArray(TreasureIds),
     totalPoints |-> 0, level |-> 1, badges |-> EmptyArray(BadgeIds),
     missionBriefing |-> "none"]

\* --------------------------------------------------- arrays (as multisets)
\* An array is kept as the number of times each element occurs in it: no
\* operation of the engine depends on the order of the elements.
includes(arr, x) == arr[x] > 0

push(arr, x) == [arr EXCEPT ![x] = @ + 1]

pull(arr, x) == [arr EXCEPT ![x] = 0]

RECURSIVE SumOver(_, _)
SumOver(f, S) ==
    IF S = {} THEN 0
    ELSE LET x == CHOOSE y \in S : TRUE IN f[x] + SumOver(f, S \ {x})

length(arr) == SumOver(arr, DOMAIN arr)

VARIABLES
    catalog,      \* the treasures collection: id -> document (or NoTreasure)
    progress,     \* the userprogresses collection: player -> document (or NoRecord)
    req,          \* the progress requests in flight, one per request slot
    adminDel,     \* the admin deleteTreasure request in flight
    nextId,       \* the id the next created treasure gets
    nOps,         \* requests arrived so far
    catalogChanged, \* whether a catalog change was ever requested
    app,          \* the state of the App component (the player's browser)
    scanner       \* the state of the Scanner component

vars == <<catalog, progress, req, adminDel, nextId, nOps, catalogChanged, app, scanner>>

\* The variables of the backend.
backend == <<catalog, progress, req, adminDel, nextId, nOps, catalogChanged>>

IdleReq ==
    [op |-> "none", pc |-> "idle", user |-> "p1", treasureId |-> 1,
     treasurePoints |-> 0, snap |-> NoRecord, doc |-> NoRecord,
     outcome |-> "none"]

IdleAdmin == [pc |-> "idle", id |-> 1]

\* ------------------------------------------------------------- the browser
\* The radius, in metres, within which a treasure can be scanned.
ScanRange == 50

\* A position is a point of one meridian, its latitude given in metres of arc
\* along it; NoFix is the null userLocation before the first GPS fix.
NoFix == [fix |-> FALSE, latitude |-> 0, longitude |-> 0]

Fix(latitude) == [fix |-> TRUE, latitude |-> latitude, longitude |-> 0]

Positions == {Fix(latitude) : latitude \in {-50, 0, 49, 50, 51, 100, 150}}

\* A client string is the sequence of its characters.  The treasures the App
\* has loaded: two markers 100 m apart.
ClientTreasures ==
    {[id |-> <<"a">>, latitude |-> 0, longitude |-> 0],
     [id |-> <<"b">>, latitude |-> 100, longitude |-> 0]}

\* The null selectedTreasure.
NoSelection == [id |-> <<>>, latitude |-> 0, longitude |-> 0]

\* The App as it mounts.
AppInit ==
    [userLocation |-> NoFix, selectedTreasure |-> NoSelection,
     isScannerOpen |-> FALSE, unlockedTreasureIds |-> {}]

\* 'geohunt:'
Namespace == <<"g", "e", "o", "h", "u", "n", "t", ":">>

\* The treasure ids the Scanner is mounted for, and the payloads jsQR is
\* taken to decode: a prefix (the namespace, or something close to it)
\* followed by an id (or something close to one).
TargetIds == {<<"a">>, <<"b">>, <<"a", "b">>, <<"A">>}

PayloadPrefixes ==
    {Namespace,
     <<"G", "E", "O", "H", "U", "N", "T", ":">>,
     <<"g", "e", "o", "h", "u", "n", "t">>,
     <<" ">> \o Namespace,
     <<>>}

PayloadSuffixes == TargetIds \cup {<<>>, <<"a", " ">>, Namespace \o <<"a">>}

Payloads == {prefix \o suffix : prefix \in PayloadPrefixes, suffix \in PayloadSuffixes}

\* The Scanner as it mounts for a target treasure.  data is code.data of the
\* frame analysed last, frames the number of frames analysed; resetTimers and
\* onScanTimer are the pending setTimeout callbacks, onScanCalls the ids
\* onScan was called with.  taps counts the calls of startCamera, pending
\* those whose getUserMedia has not settled; streams is the number of camera
\* streams acquired and not stopped (streamRef refers to the last one);
\* onloadedmetadata tells that the handler is installed on the video;
\* simulationTimers and simulationScanTimers are the pending 2 s and 800 ms
\* timers of the simulation; closed tells that the Scanner was dismissed.
ScannerFor(targetId) ==
    [targetId |-> targetId, scanning |-> FALSE, success |-> FALSE,
     wrongCode |-> FALSE, scannedCode |-> <<>>, statusMessage |-> "Initializing...",
     animationRef |-> FALSE, streamRef |-> FALSE,
     data |-> <<>>, frames |-> 0, resetTimers |-> 0, onScanTimer |-> FALSE,
     onScanCalls |-> <<>>,
     cameraError |-> FALSE, taps |-> 0, pending |-> 0, streams |-> 0,
     onloadedmetadata |-> FALSE, simulationTimers |-> 0,
     simulationScanTimers |-> 0, closed |-> FALSE]

ScannerInit == ScannerFor(<<>>)

\* The Scanner with the camera playing and a frame callback scheduled.
ScannerActive(targetId) ==
    [ScannerFor(targetId) EXCEPT !.scanning = TRUE, !.animationRef = TRUE,
                                 !.streamRef = TRUE, !.streams = 1,
                                 !.taps = 1,
                                 !.statusMessage = "Point camera at QR code"]

\* p1 has registered (register writes the blank progress document); p2 is an
\* account without a progress document yet (the seeded admin account).
Init ==
    /\ catalog = SeedCatalog
    /\ progress = [p \in Players |-> IF p = "p1" THEN FreshRecord ELSE NoRecord]
    /\ req = [r \in Reqs |-> IdleReq]
    /\ adminDel = IdleAdmin
    /\ nextId = 4
    /\ nOps = 0
    /\ catalogChanged = FALSE
    /\ app = AppInit
    /\ scanner = ScannerInit

\* The same accounts over the whole seeded catalog.
InitSeeded ==
    /\ catalog = SeededCatalog
    /\ progress = [p \in Players |-> IF p = "p1" THEN FreshRecord ELSE NoRecord]
    /\ req = [r \in Reqs |-> IdleReq]
    /\ adminDel = IdleAdmin
    /\ nextId = 6
    /\ nOps = 0
    /\ catalogChanged = FALSE
    /\ app = AppInit
    /\ scanner = ScannerInit

\* ------------------------------------------------ UserProgress model methods
\* Faulty variant of calculateLevel: levels counted from 0.
calculateLevel_fromZero(doc) ==
    [doc EXCEPT !.level = doc.totalPoints \div PointsPerLevel]

calculateLevel(doc) ==
    [doc EXCEPT !.level = (doc.totalPoints \div PointsPerLevel) + 1]

\* "explorer": at least one treasure unlocked.
explorerRule(doc) ==
    IF length(doc.unlockedTreasures) >= 1 /\ ~includes(doc.badges, "explorer")
    THEN [doc EXCEPT !.badges = push(@, "explorer")]
    ELSE doc

\* Faulty variant of scholarRule: one unlocked academic treasure is enough.
scholarRule_some(doc, cat) ==
    LET academicIds == {t \in TreasureIds : cat[t].present /\ cat[t].category = "academic"}
        hasAcademic == \E id \in academicIds : includes(doc.unlockedTreasures, id)
    IN  IF hasAcademic /\ ~includes(doc.badges, "scholar")
        THEN [doc EXCEPT !.badges = push(@, "scholar")]
        ELSE doc

\* "scholar": every academic treasure of the catalog is unlocked, and there is one.
scholarRule(doc, cat) ==
    LET academicIds == {t \in TreasureIds : cat[t].present /\ cat[t].category = "academic"}
        hasAllAcademic == \A id \in academicIds : includes(doc.unlockedTreasures, id)
    IN  IF hasAllAcademic /\ Cardinality(academicIds) > 0 /\ ~includes(doc.badges, "scholar")
        THEN [doc EXCEPT !.badges = push(@, "scholar")]
        ELSE doc

\* "socialite": some social treasure of the catalog is unlocked.
socialiteRule(doc, cat) ==
    LET socialIds == {t \in TreasureIds : cat[t].present /\ cat[t].category = "social"}
        hasSocial == \E id \in socialIds : includes(doc.unlockedTreasures, id)
    IN  IF hasSocial /\ ~includes(doc.badges, "socialite")
        THEN [doc EXCEPT !.badges = push(@, "socialite")]
        ELSE doc

\* "master": as many unlocked entries as the catalog has treasures.
masterRule(doc, cat) ==
    LET allTreasures == {t \in TreasureIds : cat[t].present}
    IN  IF /\ length(doc.unlockedTreasures) = Cardinality(allTreasures)
           /\ Cardinality(allTreasures) > 0
           /\ ~includes(doc.badges, "master")
        THEN [doc EXCEPT !.badges = push(@, "master")]
        ELSE doc

\* checkBadges run against one catalog.
checkBadges(doc, cat) ==
    masterRule(socialiteRule(scholarRule(explorerRule(doc), cat), cat), cat)

\* ----------------------------------------------------- the unlock transaction
\* Faulty variant of award: the points are not added.
award_noPoints(doc, treasureId, points) ==
    calculateLevel([doc EXCEPT !.unlockedTreasures = push(@, treasureId)])

\* Lines 83-85 of unlockTreasure, on the request's copy of the document.
award(doc, treasureId, points) ==
    calculateLevel([doc EXCEPT !.unlockedTreasures = push(@, treasureId),
                               !.totalPoints = @ + points])

\* Faulty variant of save: the badges pushed by the request are left out of the update.
save_noBadges(db, snap, doc) ==
    [db EXCEPT
        !.unlockedTreasures =
            [t \in TreasureIds |-> @[t] + (doc.unlockedTreasures[t] - snap.unlockedTreasures[t])],
        !.totalPoints = IF doc.totalPoints # snap.totalPoints THEN doc.totalPoints ELSE @,
        !.level = IF doc.level # snap.level THEN doc.level ELSE @]

\* Faulty variant of save: the whole badges array of the request's copy is written.
save_setBadges(db, snap, doc) ==
    [db EXCEPT
        !.unlockedTreasures =
            [t \in TreasureIds |-> @[t] + (doc.unlockedTreasures[t] - snap.unlockedTreasures[t])],
        !.totalPoints = IF doc.totalPoints # snap.totalPoints THEN doc.totalPoints ELSE @,
        !.level = IF doc.level # snap.level THEN doc.level ELSE @,
        !.badges = doc.badges]

\* progress.save(): the update built from the paths the request modified,
\* applied to the stored document db.  snap is the document as the request
\* read it, doc its copy now.
save(db, snap, doc) ==
    [db EXCEPT
        !.unlockedTreasures =
            [t \in TreasureIds |-> @[t] + (doc.unlockedTreasures[t] - snap.unlockedTreasures[t])],
        !.totalPoints = IF doc.totalPoints # snap.totalPoints THEN doc.totalPoints ELSE @,
        !.level = IF doc.level # snap.level THEN doc.level ELSE @,
        !.badges = [b \in BadgeIds |-> @[b] + (doc.badges[b] - snap.badges[b])]]

InFlight(r) == req[r].pc \notin {"idle", "done"}

\* A request is served in the first slot that is free.
FreeSlot(r) ==
    /\ ~InFlight(r)
    /\ r = "r2" => InFlight("r1")

Finished(r, outcome) ==
    [IdleReq EXCEPT !.op = req[r].op, !.pc = "done", !.user = req[r].user,
                    !.treasureId = req[r].treasureId, !.outcome = outcome]

\* Faulty variant of Loaded: the already-unlocked check is missing.
Loaded_noCheck(r, rec) ==
    [req[r] EXCEPT !.pc = "findAcademic", !.snap = rec,
                   !.doc = explorerRule(award(rec, req[r].treasureId,
                                              req[r].treasurePoints))]

\* What unlockTreasure does once it holds the player's document rec: the
\* already-unlocked check, then the award and the first badge rule, up to the
\* first catalog query of checkBadges.
Loaded(r, rec) ==
    IF includes(rec.unlockedTreasures, req[r].treasureId)
    THEN Finished(r, "AlreadyUnlocked")
    ELSE [req[r] EXCEPT !.pc = "findAcademic", !.snap = rec,
                        !.doc = explorerRule(award(rec, req[r].treasureId,
                                                   req[r].treasurePoints))]

\* POST /api/progress/unlock/:treasureId arrives.
unlockTreasure_request(r, p, t) ==
    /\ FreeSlot(r)
    /\ nOps < MaxOps
    /\ req' = [req EXCEPT ![r] = [IdleReq EXCEPT !.op = "unlock", !.pc = "findTreasure",
                                                 !.user = p, !.treasureId = t]]
    /\ nOps' = nOps + 1
    /\ UNCHANGED <<catalog, progress, adminDel, nextId, catalogChanged, app, scanner>>

\* POST /api/progress/unlock/:treasureId arrives, in a run over the seeded catalog.
unlockTreasure_requestSeeded(r, p, t) ==
    /\ FreeSlot(r)
    /\ nOps < MaxUnlocks
    /\ req' = [req EXCEPT ![r] = [IdleReq EXCEPT !.op = "unlock", !.pc = "findTreasure",
                                                 !.user = p, !.treasureId = t]]
    /\ nOps' = nOps + 1
    /\ UNCHANGED <<catalog, progress, adminDel, nextId, catalogChanged, app, scanner>>

\* Faulty variant of unlockTreasure_findTreasure: the 404 check is missing.
unlockTreasure_findTreasure_noCheck(r) ==
    /\ req[r].op = "unlock" /\ req[r].pc = "findTreasure"
    /\ req' = [req EXCEPT ![r] =
                 [@ EXCEPT !.pc = "findProgress",
                           !.treasurePoints = catalog[req[r].treasureId].points]]
    /\ UNCHANGED <<catalog, progress, adminDel, nextId, nOps, catalogChanged, app, scanner>>

\* Treasure.findById; 404 when there is none.
unlockTreasure_findTreasure(r) ==
    /\ req[r].op = "unlock" /\ req[r].pc = "findTreasure"
    /\ req' = [req EXCEPT ![r] =
                 IF catalog[req[r].treasureId].present
                 THEN [@ EXCEPT !.pc = "findProgress",
                                !.treasurePoints = catalog[req[r].treasureId].points]
                 ELSE Finished(r, "NotFound")]
    /\ UNCHANGED <<catalog, progress, adminDel, nextId, nOps, catalogChanged, app, scanner>>

\* UserProgress.findOne, and what follows it up to the next await.
unlockTreasure_findProgress(r) ==
    /\ req[r].op = "unlock" /\ req[r].pc = "findProgress"
    /\ req' = [req EXCEPT ![r] =
                 IF progress[req[r].user].exists
                 THEN Loaded(r, progress[req[r].user])
                 ELSE [@ EXCEPT !.pc = "create"]]
    /\ UNCHANGED <<catalog, progress, adminDel, nextId, nOps, catalogChanged, app, scanner>>

\* UserProgress.create: the unique index on user rejects a second document
\* (duplicate key, answered 400 by the error handler).
unlockTreasure_create(r) ==
    /\ req[r].op = "unlock" /\ req[r].pc = "create"
    /\ IF progress[req[r].user].exists
       THEN /\ req' = [req EXCEPT ![r] = Finished(r, "Error")]
            /\ UNCHANGED progress
       ELSE /\ progress' = [progress EXCEPT ![req[r].user] = FreshRecord]
            /\ req' = [req EXCEPT ![r] = Loaded(r, FreshRecord)]
    /\ UNCHANGED <<catalog, adminDel, nextId, nOps, catalogChanged, app, scanner>>

\* checkBadges: Treasure.find({category: 'academic'}) and the scholar rule.
checkBadges_academic(r) ==
    /\ req[r].pc = "findAcademic"
    /\ req' = [req EXCEPT ![r] = [@ EXCEPT !.pc = "findSocial",
                                           !.doc = scholarRule(@, catalog)]]
    /\ UNCHANGED <<catalog, progress, adminDel, nextId, nOps, catalogChanged, app, scanner>>

\* checkBadges: Treasure.find({category: 'social'}) and the socialite rule.
checkBadges_social(r) ==
    /\ req[r].pc = "findSocial"
    /\ req' = [req EXCEPT ![r] = [@ EXCEPT !.pc = "findAll",
                                           !.doc = socialiteRule(@, catalog)]]
    /\ UNCHANGED <<catalog, progress, adminDel, nextId, nOps, catalogChanged, app, scanner>>

\* checkBadges: Treasure.find() and the master rule.
checkBadges_all(r) ==
    /\ req[r].pc = "findAll"
    /\ req' = [req EXCEPT ![r] = [@ EXCEPT !.pc = "save",
                                           !.doc = masterRule(@, catalog)]]
    /\ UNCHANGED <<catalog, progress, adminDel, nextId, nOps, catalogChanged, app, scanner>>

\* Faulty variant of unlockTreasure_save: the update goes to every document.
unlockTreasure_save_all(r) ==
    /\ req[r].pc = "save"
    /\ progress' = [p \in Players |->
                      IF progress[p].exists
                      THEN save(progress[p], req[r].snap, req[r].doc)
                      ELSE progress[p]]
    /\ req' = [req EXCEPT ![r] = [@ EXCEPT !.pc = "populate"]]
    /\ UNCHANGED <<catalog, adminDel, nextId, nOps, catalogChanged, app, scanner>>

\* await progress.save()
unlockTreasure_save(r) ==
    /\ req[r].pc = "save"
    /\ progress' = [progress EXCEPT ![req[r].user] = save(@, req[r].snap, req[r].doc)]
    /\ req' = [req EXCEPT ![r] = [@ EXCEPT !.pc = "populate"]]
    /\ UNCHANGED <<catalog, adminDel, nextId, nOps, catalogChanged, app, scanner>>

\* await progress.populate(...), then the 200 response.
unlockTreasure_respond(r) ==
    /\ req[r].pc = "populate"
    /\ req' = [req EXCEPT ![r] = Finished(r, "Awarded")]
    /\ UNCHANGED <<catalog, progress, adminDel, nextId, nOps, catalogChanged, app, scanner>>

\* The 500 response of the error handler; the request keeps what it read.
Failed(r) == [req[r] EXCEPT !.pc = "done", !.outcome = "Error"]

\* The database operation unlockTreasure awaits rejects (the persistence
\* layer is unavailable): catch, next(err), and the error handler answers.
unlockTreasure_catch(r) ==
    /\ req[r].op = "unlock"
    /\ InFlight(r)
    /\ req' = [req EXCEPT ![r] = Failed(r)]
    /\ UNCHANGED <<catalog, progress, adminDel, nextId, nOps, catalogChanged, app, scanner>>

\* ------------------------------------------------------------- getProgress
getProgress_request(r, p) ==
    /\ FreeSlot(r)
    /\ nOps < MaxOps
    /\ req' = [req EXCEPT ![r] = [IdleReq EXCEPT !.op = "get", !.pc = "findProgress",
                                                 !.user = p]]
    /\ nOps' = nOps + 1
    /\ UNCHANGED <<catalog, progress, adminDel, nextId, catalogChanged, app, scanner>>

\* The 200 response of getProgress: data is the document the request holds.
Returned(r, rec) == [Finished(r, "Ok") EXCEPT !.doc = rec]

\* Faulty variant of getProgress_findOne: the document found is written anew.
getProgress_findOne_recreate(r) ==
    /\ req[r].op = "get" /\ req[r].pc = "findProgress"
    /\ IF progress[req[r].user].exists
       THEN /\ progress' = [progress EXCEPT ![req[r].user] = FreshRecord]
            /\ req' = [req EXCEPT ![r] = Returned(r, FreshRecord)]
       ELSE /\ req' = [req EXCEPT ![r] = [@ EXCEPT !.pc = "create"]]
            /\ UNCHANGED progress
    /\ UNCHANGED <<catalog, adminDel, nextId, nOps, catalogChanged, app, scanner>>

\* UserProgress.findOne(...).populate(...); answered at once when there is a
\* document.
getProgress_findOne(r) ==
    /\ req[r].op = "get" /\ req[r].pc = "findProgress"
    /\ req' = [req EXCEPT ![r] =
                 IF progress[req[r].user].exists
                 THEN Returned(r, progress[req[r].user])
                 ELSE [@ EXCEPT !.pc = "create"]]
    /\ UNCHANGED <<catalog, progress, adminDel, nextId, nOps, catalogChanged, app, scanner>>

\* UserProgress.create: the unique index on user rejects a second document
\* (duplicate key, answered 400 by the error handler).
getProgress_create(r) ==
    /\ req[r].op = "get" /\ req[r].pc = "create"
    /\ IF progress[req[r].user].exists
       THEN /\ req' = [req EXCEPT ![r] = Finished(r, "Error")]
            /\ UNCHANGED progress
       ELSE /\ progress' = [progress EXCEPT ![req[r].user] = FreshRecord]
            /\ req' = [req EXCEPT ![r] = Returned(r, FreshRecord)]
    /\ UNCHANGED <<catalog, adminDel, nextId, nOps, catalogChanged, app, scanner>>

\* ------------------------------------------- updateBriefing, getLeaderboard
\* Faulty variant of updateBriefing: the document is replaced by the update.
updateBriefing_replace(p, missionBriefing) ==
    /\ nOps < MaxOps
    /\ progress[p].exists
    /\ progress' = [progress EXCEPT ![p] =
                      [FreshRecord EXCEPT !.missionBriefing = missionBriefing]]
    /\ nOps' = nOps + 1
    /\ UNCHANGED <<catalog, req, adminDel, nextId, catalogChanged, app, scanner>>

\* UserProgress.findOneAndUpdate({user}, {missionBriefing}) (no document: null
\* is returned and nothing changes).
updateBriefing(p, missionBriefing) ==
    /\ nOps < MaxOps
    /\ progress[p].exists
    /\ progress' = [progress EXCEPT ![p].missionBriefing = missionBriefing]
    /\ nOps' = nOps + 1
    /\ UNCHANGED <<catalog, req, adminDel, nextId, catalogChanged, app, scanner>>

\* UserProgress.find().sort().limit().populate(): a read.
getLeaderboard ==
    /\ nOps < MaxOps
    /\ nOps' = nOps + 1
    /\ UNCHANGED <<catalog, progress, req, adminDel, nextId, catalogChanged, app, scanner>>

\* --------------------------------------------------------- catalog operations
\* Treasure.create(req.body): a new document under a new id.
createTreasure(points, category) ==
    /\ nOps < MaxOps
    /\ nextId \in IdChoices
    /\ catalog' = [catalog EXCEPT ![nextId] = Treasure(points, category)]
    /\ nextId' = nextId + 1
    /\ nOps' = nOps + 1
    /\ catalogChanged' = TRUE
    /\ UNCHANGED <<progress, req, adminDel, app, scanner>>

\* Treasure.findByIdAndUpdate(id, req.body) with a body that sets the points
\* or the category (404 and no change when there is no such treasure).
updateTreasure(id, body) ==
    /\ nOps < MaxOps
    /\ catalog[id].present
    /\ catalog' = [catalog EXCEPT ![id] =
                     IF body.field = "points"
                     THEN [@ EXCEPT !.points = body.value]
                     ELSE [@ EXCEPT !.category = body.value]]
    /\ nOps' = nOps + 1
    /\ catalogChanged' = TRUE
    /\ UNCHANGED <<progress, req, adminDel, nextId, app, scanner>>

\* adminController.deleteTreasure, first await: Treasure.findById (404 and
\* nothing else when there is no such treasure).
deleteTreasure_find(id) ==
    /\ nOps < MaxOps
    /\ adminDel.pc = "idle"
    /\ catalog[id].present
    /\ adminDel' = [pc |-> "pull", id |-> id]
    /\ nOps' = nOps + 1
    /\ catalogChanged' = TRUE
    /\ UNCHANGED <<catalog, progress, req, nextId, app, scanner>>

\* UserProgress.updateMany({}, {$pull: {unlockedTreasures: id}})
deleteTreasure_pull ==
    /\ adminDel.pc = "pull"
    /\ progress' = [p \in Players |->
                      [progress[p] EXCEPT !.unlockedTreasures = pull(@, adminDel.id)]]
    /\ adminDel' = [adminDel EXCEPT !.pc = "remove"]
    /\ UNCHANGED <<catalog, req, nextId, nOps, catalogChanged, app, scanner>>

\* Treasure.findByIdAndDelete
deleteTreasure_remove ==
    /\ adminDel.pc = "remove"
    /\ catalog' = [catalog EXCEPT ![adminDel.id] = NoTreasure]
    /\ adminDel' = IdleAdmin
    /\ UNCHANGED <<progress, req, nextId, nOps, catalogChanged, app, scanner>>

\* treasureController.deleteTreasure (DELETE /api/treasures/:id): the
\* treasure document alone is deleted.
deleteTreasure_public(id) ==
    /\ nOps < MaxOps
    /\ catalog[id].present
    /\ catalog' = [catalog EXCEPT ![id] = NoTreasure]
    /\ nOps' = nOps + 1
    /\ catalogChanged' = TRUE
    /\ UNCHANGED <<progress, req, adminDel, nextId, app, scanner>>

\* Faulty variant of resetUserProgress: unlockedTreasures is left out of the update.
resetUserProgress_keepUnlocked(p) ==
    /\ nOps < MaxOps
    /\ progress[p].exists
    /\ progress' = [progress EXCEPT ![p] =
                      [FreshRecord EXCEPT !.unlockedTreasures = progress[p].unlockedTreasures]]
    /\ nOps' = nOps + 1
    /\ UNCHANGED <<catalog, req, adminDel, nextId, catalogChanged, app, scanner>>

\* findOneAndUpdate to the blank state (404 and no change without a document).
resetUserProgress(p) ==
    /\ nOps < MaxOps
    /\ progress[p].exists
    /\ progress' = [progress EXCEPT ![p] = FreshRecord]
    /\ nOps' = nOps + 1
    /\ UNCHANGED <<catalog, req, adminDel, nextId, catalogChanged, app, scanner>>

\* ------------------------------------------------------- routes and roles
\* Who sends a request: the two accounts, or a caller without a token.
Callers == Players \cup {"anonymous"}

\* The role of an account: 'user' by default; p2 is the admin account.
Role(u) == IF u = "p2" THEN "admin" ELSE "user"

\* protect: the request carries the token of an account (401 otherwise).
protect(u) == u \in Players

\* authorize(...roles): the role of the account is one of roles (403
\* otherwise).
authorize(roles, u) == Role(u) \in roles

\* A request answered 401 or 403 by a middleware: no handler runs.
Rejected == UNCHANGED vars

\* POST /api/treasures: protect, createTreasure.
treasures_post(u, points, category) ==
    IF protect(u) THEN createTreasure(points, category) ELSE Rejected

\* PUT /api/treasures/:id: protect, updateTreasure.
treasures_put(u, id, body) ==
    IF protect(u) THEN updateTreasure(id, body) ELSE Rejected

\* DELETE /api/treasures/:id: protect, deleteTreasure.
treasures_delete(u, id) ==
    IF protect(u) THEN deleteTreasure_public(id) ELSE Rejected

\* POST /api/admin/treasures: protect, authorize('admin'), createTreasure.
admin_treasures_post(u, points, category) ==
    IF protect(u) /\ authorize({"admin"}, u)
    THEN createTreasure(points, category) ELSE Rejected

\* PUT /api/admin/treasures/:id: protect, authorize('admin'), updateTreasure.
admin_treasures_put(u, id, body) ==
    IF protect(u) /\ authorize({"admin"}, u)
    THEN updateTreasure(id, body) ELSE Rejected

\* DELETE /api/admin/treasures/:id: protect, authorize('admin'), and the
\* first await of deleteTreasure.
admin_treasures_delete(u, id) ==
    IF protect(u) /\ authorize({"admin"}, u)
    THEN deleteTreasure_find(id) ELSE Rejected

\* ------------------------------------------------- the App: proximity gate
\* A distance in metres, or the Infinity of JavaScript.
Infinity == [finite |-> FALSE, meters |-> 0]

Meters(m) == [finite |-> TRUE, meters |-> m]

\* d < n on JavaScript numbers: Infinity is below no number.
LessThan(d, n) == d.finite /\ d.meters < n

\* The haversine distance, for two points of one meridian (lon1 = lon2): the
\* length of the arc between them.
calculateDistance(lat1, lon1, lat2, lon2) ==
    Meters(IF lat2 >= lat1 THEN lat2 - lat1 ELSE lat1 - lat2)

getDistanceTo(treasure) ==
    IF ~app.userLocation.fix THEN Infinity
    ELSE calculateDistance(app.userLocation.latitude, app.userLocation.longitude,
                           treasure.latitude, treasure.longitude)

\* Faulty variant of isNear: the range itself counts as near.
isNear_atRange(treasure) ==
    getDistanceTo(treasure).finite /\ getDistanceTo(treasure).meters <= ScanRange

isNear(treasure) == LessThan(getDistanceTo(treasure), ScanRange)

\* The "Scan & Collect" button: rendered for a selected treasure the player
\* has not unlocked, disabled unless the treasure is near.
ScanButtonShown ==
    /\ app.selectedTreasure # NoSelection
    /\ app.selectedTreasure.id \notin app.unlockedTreasureIds

ScanButtonDisabled == ~isNear(app.selectedTreasure)

\* navigator.geolocation.watchPosition delivers a position.
watchPosition_success(pos) ==
    /\ app' = [app EXCEPT !.userLocation = pos]
    /\ UNCHANGED <<backend, scanner>>

\* A treasure marker is tapped (the Scanner, when open, covers the screen).
handleTreasureClick(treasure) ==
    /\ ~app.isScannerOpen
    /\ app' = [app EXCEPT !.selectedTreasure = treasure]
    /\ UNCHANGED <<backend, scanner>>

\* The discovery modal is dismissed.
closeModal ==
    /\ ~app.isScannerOpen
    /\ app.selectedTreasure # NoSelection
    /\ app' = [app EXCEPT !.selectedTreasure = NoSelection]
    /\ UNCHANGED <<backend, scanner>>

\* The scan button is tapped: a disabled button delivers no click.
scanButton_onClick ==
    /\ ScanButtonShown
    /\ ~ScanButtonDisabled
    /\ ~app.isScannerOpen
    /\ app' = [app EXCEPT !.isScannerOpen = TRUE]
    /\ UNCHANGED <<backend, scanner>>

\* The close button of the Scanner: onClose.
Scanner_onClose ==
    /\ app.isScannerOpen
    /\ app' = [app EXCEPT !.isScannerOpen = FALSE]
    /\ UNCHANGED <<backend, scanner>>

\* App.unlockTreasure, the onScan of the Scanner mounted for the selected
\* treasure: on a successful answer of the API the treasure is marked
\* unlocked and the Scanner closed; on an error only a toast is shown.
App_unlockTreasure(id, ok) ==
    /\ app.isScannerOpen
    /\ app.selectedTreasure # NoSelection
    /\ id = app.selectedTreasure.id
    /\ id \notin app.unlockedTreasureIds
    /\ app' = IF ok
              THEN [app EXCEPT !.unlockedTreasureIds = @ \cup {id},
                               !.isScannerOpen = FALSE]
              ELSE app
    /\ UNCHANGED <<backend, scanner>>

\* --------------------------------------------- the Scanner: scanQRCode
\* String.prototype.startsWith
startsWith(str, prefix) ==
    Len(str) >= Len(prefix) /\ SubSeq(str, 1, Len(prefix)) = prefix

\* The places where pattern occurs in str.
occurrences(str, pattern) ==
    {i \in 1..(Len(str) - Len(pattern) + 1) :
        SubSeq(str, i, i + Len(pattern) - 1) = pattern}

\* String.prototype.replace with a string pattern: the first occurrence is
\* replaced.
replace(str, pattern, replacement) ==
    IF occurrences(str, pattern) = {} THEN str
    ELSE LET i == CHOOSE k \in occurrences(str, pattern) :
                      \A j \in occurrences(str, pattern) : k <= j
         IN  SubSeq(str, 1, i - 1) \o replacement
                 \o SubSeq(str, i + Len(pattern), Len(str))

\* cleanup(): the frame callback is cancelled, and the tracks of the stream
\* streamRef refers to are stopped.
cleanup(sc) ==
    [sc EXCEPT !.animationRef = FALSE, !.streamRef = FALSE,
               !.streams = IF sc.streamRef THEN @ - 1 ELSE @]

\* Faulty variant of decoded: the namespace is looked for anywhere in the payload.
decoded_anywhere(sc, data) ==
    IF occurrences(data, Namespace) # {}
    THEN LET treasureId == replace(data, Namespace, <<>>)
         IN  IF treasureId = sc.targetId
             THEN [cleanup(sc) EXCEPT !.statusMessage = "QR Code detected!",
                                      !.scannedCode = treasureId,
                                      !.success = TRUE, !.wrongCode = FALSE,
                                      !.onScanTimer = TRUE]
             ELSE [sc EXCEPT !.wrongCode = TRUE,
                             !.statusMessage = "Wrong QR code! Find the right marker.",
                             !.resetTimers = @ + 1]
    ELSE [sc EXCEPT !.statusMessage = "Not a GeoHunt QR code"]

\* Faulty variant of decoded: the code of any treasure is accepted.
decoded_anyTarget(sc, data) ==
    IF startsWith(data, Namespace)
    THEN [cleanup(sc) EXCEPT !.statusMessage = "QR Code detected!",
                             !.scannedCode = replace(data, Namespace, <<>>),
                             !.success = TRUE, !.wrongCode = FALSE,
                             !.onScanTimer = TRUE]
    ELSE [sc EXCEPT !.statusMessage = "Not a GeoHunt QR code"]

\* scanQRCode once jsQR found a code with data: the payload is validated
\* against the namespace and the target.
decoded(sc, data) ==
    IF startsWith(data, Namespace)
    THEN LET treasureId == replace(data, Namespace, <<>>)
         IN  IF treasureId = sc.targetId
             THEN [cleanup(sc) EXCEPT !.statusMessage = "QR Code detected!",
                                      !.scannedCode = treasureId,
                                      !.success = TRUE, !.wrongCode = FALSE,
                                      !.onScanTimer = TRUE]
             ELSE [sc EXCEPT !.wrongCode = TRUE,
                             !.statusMessage = "Wrong QR code! Find the right marker.",
                             !.resetTimers = @ + 1]
    ELSE [sc EXCEPT !.statusMessage = "Not a GeoHunt QR code"]

\* The frame callback runs on a frame in which jsQR decodes data (the empty
\* string: no code found); unless the code matched, the next callback is
\* requested.
scanQRCode(data) ==
    /\ scanner.animationRef
    /\ ~scanner.success
    /\ scanner.frames < MaxFrames
    /\ scanner' = [(IF data # <<>>
                     THEN decoded(scanner, data)
                     ELSE [scanner EXCEPT !.statusMessage = "Scanning for QR code..."])
                   EXCEPT !.data = data, !.frames = @ + 1]
    /\ UNCHANGED <<backend, app>>

\* The 2 s timer set on a wrong code fires.
wrongCode_timeout ==
    /\ scanner.resetTimers > 0
    /\ scanner' = [scanner EXCEPT !.wrongCode = FALSE,
                                  !.statusMessage = "Scanning for QR code...",
                                  !.resetTimers = @ - 1]
    /\ UNCHANGED <<backend, app>>

\* The 800 ms timer set on a match fires: onScan(treasureId).
onScan_timeout ==
    /\ scanner.onScanTimer
    /\ scanner' = [scanner EXCEPT !.onScanTimer = FALSE,
                                  !.onScanCalls = Append(@, scanner.scannedCode)]
    /\ UNCHANGED <<backend, app>>

\* ------------------------------------- the Scanner: camera and simulation
\* videoRef.current: the video element is rendered, in a mounted Scanner,
\* when scanning is set and cameraError is not.
videoRef(sc) == sc.scanning /\ ~sc.cameraError /\ ~sc.closed

\* The Start Scanning button, rendered while neither scanning nor success
\* is set.
StartButtonShown(sc) == ~sc.closed /\ ~sc.scanning /\ ~sc.success

\* Start Scanning is tapped: startCamera up to its await of getUserMedia.
startCamera ==
    /\ StartButtonShown(scanner)
    /\ scanner.taps < MaxTaps
    /\ scanner' = [scanner EXCEPT !.cameraError = FALSE,
                                  !.statusMessage = "Accessing camera...",
                                  !.taps = @ + 1, !.pending = @ + 1]
    /\ UNCHANGED <<backend, app>>

\* getUserMedia resolves with a stream: startCamera goes on after its await.
\* streamRef takes the new stream (one it referred to before keeps running);
\* the video gets the stream and the handler only if it is rendered.
startCamera_granted ==
    /\ scanner.pending > 0
    /\ scanner' = [scanner EXCEPT !.pending = @ - 1,
                                  !.streams = @ + 1,
                                  !.streamRef = TRUE,
                                  !.onloadedmetadata = @ \/ videoRef(scanner)]
    /\ UNCHANGED <<backend, app>>

\* The video has the metadata of the stream: the frame loop starts.
video_onloadedmetadata ==
    /\ scanner.onloadedmetadata
    /\ scanner' = [scanner EXCEPT !.onloadedmetadata = FALSE,
                                  !.scanning = TRUE,
                                  !.statusMessage = "Point camera at QR code",
                                  !.animationRef = TRUE]
    /\ UNCHANGED <<backend, app>>

\* getUserMedia rejects: the catch branch of startCamera starts the
\* simulation and sets its 2 s timer.
startCamera_denied ==
    /\ scanner.pending > 0
    /\ scanner' = [scanner EXCEPT !.pending = @ - 1,
                                  !.cameraError = TRUE,
                                  !.scanning = TRUE,
                                  !.statusMessage = "Simulating scan...",
                                  !.simulationTimers = @ + 1]
    /\ UNCHANGED <<backend, app>>

\* Faulty variant of simulation_timeout: success is set, onScan never called.
simulation_timeout_silent ==
    /\ scanner.simulationTimers > 0
    /\ scanner' = [scanner EXCEPT !.simulationTimers = @ - 1,
                                  !.success = TRUE]
    /\ UNCHANGED <<backend, app>>

\* The 2 s timer of the simulation fires: success is set and the 800 ms
\* timer of onScan set.
simulation_timeout ==
    /\ scanner.simulationTimers > 0
    /\ scanner' = [scanner EXCEPT !.simulationTimers = @ - 1,
                                  !.success = TRUE,
                                  !.simulationScanTimers = @ + 1]
    /\ UNCHANGED <<backend, app>>

\* The 800 ms timer of the simulation fires: onScan(targetId).
simulation_onScan ==
    /\ scanner.simulationScanTimers > 0
    /\ scanner' = [scanner EXCEPT !.simulationScanTimers = @ - 1,
                                  !.onScanCalls = Append(@, scanner.targetId)]
    /\ UNCHANGED <<backend, app>>

\* The close button of the Scanner: cleanup(), then onClose() unmounts the
\* Scanner (the unmount effect runs cleanup once more).
Scanner_close ==
    /\ ~scanner.closed
    /\ scanner' = [cleanup(cleanup(scanner)) EXCEPT !.closed = TRUE]
    /\ app' = [app EXCEPT !.isScannerOpen = FALSE]
    /\ UNCHANGED backend

\* --------------------------------------------------------- specifications
\* A progress request of a player arrives.
ArriveProgress ==
    \/ \E r \in Reqs, p \in Players, t \in IdChoices : unlockTreasure_request(r, p, t)
    \/ \E r \in Reqs, p \in Players : getProgress_request(r, p)

\* A request that is served in one database operation arrives.
ArriveOther ==
    \/ \E p \in Players, b \in BriefingChoices : updateBriefing(p, b)
    \/ getLeaderboard

\* A request of the catalog or admin routes arrives.
ArriveAdmin ==
    \/ \E points \in PointChoices, category \in CategoryChoices : createTreasure(points, category)
    \/ \E id \in IdChoices, body \in UpdateBodies : updateTreasure(id, body)
    \/ \E id \in IdChoices : deleteTreasure_find(id)
    \/ \E id \in IdChoices : deleteTreasure_public(id)
    \/ \E p \in Players : resetUserProgress(p)

Arrive == ArriveProgress \/ ArriveOther \/ ArriveAdmin

\* A progress request in flight takes its next step.
StepUnlock ==
    \/ \E r \in Reqs : unlockTreasure_findTreasure(r)
    \/ \E r \in Reqs : unlockTreasure_findProgress(r)
    \/ \E r \in Reqs : unlockTreasure_create(r)
    \/ \E r \in Reqs : checkBadges_academic(r)
    \/ \E r \in Reqs : checkBadges_social(r)
    \/ \E r \in Reqs : checkBadges_all(r)
    \/ \E r \in Reqs : unlockTreasure_save(r)
    \/ \E r \in Reqs : unlockTreasure_respond(r)

StepGet ==
    \/ \E r \in Reqs : getProgress_findOne(r)
    \/ \E r \in Reqs : getProgress_create(r)

StepProgress == StepUnlock \/ StepGet

\* The admin deleteTreasure in flight takes its next step.
StepAdmin ==
    \/ deleteTreasure_pull
    \/ deleteTreasure_remove

Step == StepProgress \/ StepAdmin

Next == Arrive \/ Step

\* Requests are served concurrently: any interleaving of their steps.
Spec == Init /\ [][Next]_vars

\* No request is in flight.
Quiet == (\A r \in Reqs : ~InFlight(r)) /\ adminDel.pc = "idle"

NextSeq == (Quiet /\ Arrive) \/ Step

\* Requests are served one after another: one arrives only when none is in flight.
SpecSeq == Init /\ [][NextSeq]_vars

NextUnlock == ArriveProgress \/ StepProgress

\* The players' progress requests alone, served concurrently: no reset and no
\* catalog change.
SpecUnlock == Init /\ [][NextUnlock]_vars

\* No request of player p is in flight.
NoneInFlight(p) == \A r \in Reqs : InFlight(r) => req[r].user # p

NextPlayers ==
    \/ \E r \in Reqs, p \in Players, t \in IdChoices :
          NoneInFlight(p) /\ unlockTreasure_request(r, p, t)
    \/ StepUnlock

\* The unlock requests of different players served concurrently, those of one
\* player one after another: no reset and no catalog change.
SpecPlayers == Init /\ [][NextPlayers]_vars

NextApp ==
    \/ \E pos \in Positions : watchPosition_success(pos)
    \/ \E treasure \in ClientTreasures : handleTreasureClick(treasure)
    \/ closeModal
    \/ scanButton_onClick
    \/ Scanner_onClose
    \/ \E id \in {t.id : t \in ClientTreasures}, ok \in BOOLEAN : App_unlockTreasure(id, ok)

\* The App in the player's browser: positions arrive, treasures are selected,
\* the Scanner is opened and closed.
SpecApp == Init /\ [][NextApp]_vars

\* The backend and the App at rest, a Scanner analysing frames for some target.
InitScanning ==
    /\ catalog = SeedCatalog
    /\ progress = [p \in Players |-> IF p = "p1" THEN FreshRecord ELSE NoRecord]
    /\ req = [r \in Reqs |-> IdleReq]
    /\ adminDel = IdleAdmin
    /\ nextId = 4
    /\ nOps = 0
    /\ catalogChanged = FALSE
    /\ app = AppInit
    /\ scanner \in {ScannerActive(targetId) : targetId \in TargetIds}

NextScanning ==
    \/ \E data \in Payloads : scanQRCode(data)
    \/ wrongCode_timeout
    \/ onScan_timeout

\* scanQRCode applied to decoded payloads, frame after frame.
SpecScanning == InitScanning /\ [][NextScanning]_vars

\* The backend at rest, the App with the Scanner just opened for the selected
\* treasure, which the player stands at.
InitScanner ==
    /\ catalog = SeedCatalog
    /\ progress = [p \in Players |-> IF p = "p1" THEN FreshRecord ELSE NoRecord]
    /\ req = [r \in Reqs |-> IdleReq]
    /\ adminDel = IdleAdmin
    /\ nextId = 4
    /\ nOps = 0
    /\ catalogChanged = FALSE
    /\ \E treasure \in ClientTreasures :
          /\ app = [AppInit EXCEPT !.userLocation = Fix(treasure.latitude),
                                   !.selectedTreasure = treasure,
                                   !.isScannerOpen = TRUE]
          /\ scanner = ScannerFor(treasure.id)

\* video_onloadedmetadata and scanQRCode need the video element: no state of
\* a Scanner that starts unmounted has it, and they take no step here.
NextScanner ==
    \/ startCamera
    \/ startCamera_granted
    \/ startCamera_denied
    \/ simulation_timeout
    \/ simulation_onScan
    \/ Scanner_close

\* One Scanner session from its mount: taps on Start Scanning, the answers
\* of getUserMedia, the timers, the close button.
SpecScanner == InitScanner /\ [][NextScanner]_vars

\* A timer that is set fires.
SpecScannerFair ==
    /\ SpecScanner
    /\ WF_vars(simulation_timeout)
    /\ WF_vars(simulation_onScan)

NextSession ==
    \/ NextScanner
    \/ NextScanning

\* A Scanner session from its mount, or from the state in which the frame
\* loop runs.
SpecSession == (InitScanner \/ InitScanning) /\ [][NextSession]_vars

NextFailing ==
    \/ \E r \in Reqs, p \in Players, t \in IdChoices :
          Quiet /\ unlockTreasure_request(r, p, t)
    \/ StepUnlock
    \/ \E r \in Reqs : unlockTreasure_catch(r)

\* The players' unlock requests, served one after another over a database
\* whose operations may fail: no reset and no catalog change.
SpecFailing == Init /\ [][NextFailing]_vars

\* The callers that are not an authenticated admin.
NonAdmins == {u \in Callers : ~(protect(u) /\ authorize({"admin"}, u))}

\* A request of the treasure routes or of the admin treasure routes arrives,
\* from a caller that is not an admin.
ArriveCatalog ==
    \/ \E u \in NonAdmins, points \in PointChoices, category \in CategoryChoices :
          treasures_post(u, points, category)
    \/ \E u \in NonAdmins, id \in IdChoices, body \in UpdateBodies :
          treasures_put(u, id, body)
    \/ \E u \in NonAdmins, id \in IdChoices : treasures_delete(u, id)
    \/ \E u \in NonAdmins, points \in PointChoices, category \in CategoryChoices :
          admin_treasures_post(u, points, category)
    \/ \E u \in NonAdmins, id \in IdChoices, body \in UpdateBodies :
          admin_treasures_put(u, id, body)
    \/ \E u \in NonAdmins, id \in IdChoices : admin_treasures_delete(u, id)

\* The catalog requests of the callers that are not admins, through the two
\* routers: no admin is at work.
SpecRoutes == Init /\ [][ArriveCatalog]_vars

NextSeeded ==
    \/ Quiet /\ \E r \in Reqs, p \in Players, t \in TreasureIds :
                  unlockTreasure_requestSeeded(r, p, t)
    \/ StepUnlock

\* The seeded catalog and the players' unlock requests, served one after
\* another: no reset and no catalog change.
SpecSeeded == InitSeeded /\ [][NextSeeded]_vars

\* ------------------------------------------------------- what the claims read
BadgeSet(rec) == {b \in BadgeIds : rec.badges[b] > 0}

UnlockedSet(rec) == {t \in TreasureIds : rec.unlockedTreasures[t] > 0}

\* The points of the catalog treasures a document lists, entry by entry.
RECURSIVE SumPointsOver(_, _, _)
SumPointsOver(arr, cat, S) ==
    IF S = {} THEN 0
    ELSE LET t == CHOOSE y \in S : TRUE
         IN  arr[t] * cat[t].points + SumPointsOver(arr, cat, S \ {t})

SumPoints(rec, cat) == SumPointsOver(rec.unlockedTreasures, cat, TreasureIds)

\* The badge rules evaluated from scratch: no badge held before.
BadgeEvaluator(unlockedTreasures, cat) ==
    BadgeSet(checkBadges([FreshRecord EXCEPT !.unlockedTreasures = unlockedTreasures], cat))

\* The treasures of a catalog, and those of one category.
CatalogIds(cat) == {t \in TreasureIds : cat[t].present}

CategoryIds(cat, category) == {t \in CatalogIds(cat) : cat[t].category = category}

\* The gameplay fields of a progress document.
Gameplay(rec) == <<rec.unlockedTreasures, rec.totalPoints, rec.level, rec.badges>>

\* Request r took a step.
Stepped(r) == req'[r] # req[r]

Unlocking(r, pc) == req[r].op = "unlock" /\ req[r].pc = pc

Answered(r, outcome) == req[r].op = "unlock" /\ req[r].pc = "done" /\ req[r].outcome = outcome

\* ------------------------------------------------------------------ claims

\* C1: two unlock requests for the same (player, treasure) pair, with no reset
\* and no catalog change around them, never both end Awarded.
C1_NeverBothAwarded ==
    \A r1, r2 \in Reqs :
        (/\ r1 # r2
         /\ req[r1].user = req[r2].user
         /\ req[r1].treasureId = req[r2].treasureId
         /\ Answered(r1, "Awarded"))
        => ~Answered(r2, "Awarded")

\* C2: an unlock request that finds its treasure in the player's stored
\* unlockedTreasures ends AlreadyUnlocked, and no step it takes up to there
\* changes a progress document.
C2_SecondUnlockIsNoOp ==
    [][\A r \in Reqs :
        /\ (Unlocking(r, "findTreasure") /\ Stepped(r)) => progress' = progress
        /\ (/\ Unlocking(r, "findProgress") /\ Stepped(r)
            /\ progress[req[r].user].exists
            /\ includes(progress[req[r].user].unlockedTreasures, req[r].treasureId))
           => /\ req'[r].pc = "done"
              /\ req'[r].outcome = "AlreadyUnlocked"
              /\ progress' = progress]_vars

\* C2 witness: a request was answered AlreadyUnlocked and the document holds
\* the treasure once, with the points of the one award.
C2_Witness ==
    \E r \in Reqs :
        /\ Answered(r, "AlreadyUnlocked")
        /\ req[r].treasureId = 1
        /\ progress[req[r].user].unlockedTreasures[1] = 1
        /\ progress[req[r].user].totalPoints = 100

\* C3: requests served one after another and the catalog never changed: every
\* stored document has totalPoints equal to the sum of the points of its
\* unlocked treasures.
C3_TotalIsSumOfUnlocked ==
    ~catalogChanged =>
        \A p \in Players :
            progress[p].exists => progress[p].totalPoints = SumPoints(progress[p], catalog)

\* C3 witness: a player unlocked treasures 1 and 2 in sequence and holds 180 points.
C3_Witness ==
    /\ ~catalogChanged
    /\ \E p \in Players :
        /\ UnlockedSet(progress[p]) = {1, 2}
        /\ progress[p].totalPoints = 180

\* C4: when two unlock requests of one player for two different treasures
\* have both been answered Awarded (no reset, no catalog change), the
\* document holds both treasures and the points of everything it holds.
C4_NoLostUpdate ==
    \A r1, r2 \in Reqs :
        (/\ r1 # r2
         /\ req[r1].user = req[r2].user
         /\ req[r1].treasureId # req[r2].treasureId
         /\ Answered(r1, "Awarded")
         /\ Answered(r2, "Awarded"))
        => LET rec == progress[req[r1].user]
           IN  /\ includes(rec.unlockedTreasures, req[r1].treasureId)
               /\ includes(rec.unlockedTreasures, req[r2].treasureId)
               /\ rec.totalPoints = SumPoints(rec, catalog)

\* C5: every stored progress document has level = floor(totalPoints / 200) + 1.
C5_LevelFormula ==
    \A p \in Players :
        progress[p].exists =>
            progress[p].level = (progress[p].totalPoints \div PointsPerLevel) + 1

\* C6: no stored unlockedTreasures holds a treasure identifier twice.
C6_NoDuplicates ==
    \A p \in Players, t \in TreasureIds : progress[p].unlockedTreasures[t] <= 1

\* C7: right after the save of a successful unlock, totalPoints is the sum of
\* the catalog points of the treasures in unlockedTreasures, whatever catalog
\* operations came between the unlocks.
C7_TotalIsCatalogSum ==
    \A r \in Reqs :
        Unlocking(r, "populate") =>
            progress[req[r].user].totalPoints = SumPoints(progress[req[r].user], catalog)

\* C8: an unlock request whose treasure is not in the catalog ends NotFound,
\* and that step changes no progress document (none is created) and no
\* catalog entry.
C8_NotFoundChangesNothing ==
    [][\A r \in Reqs :
        (/\ Unlocking(r, "findTreasure") /\ Stepped(r)
         /\ ~catalog[req[r].treasureId].present)
        => /\ req'[r].pc = "done"
           /\ req'[r].outcome = "NotFound"
           /\ progress' = progress
           /\ catalog' = catalog]_vars

\* C8 witness: a player without a progress document was answered NotFound and
\* still has none.
C8_Witness ==
    \E r \in Reqs :
        /\ Answered(r, "NotFound")
        /\ ~progress[req[r].user].exists

C10_BadgesNeverRevoked ==
    [][\A p \in Players :
        BadgeSet(progress[p]) \subseteq BadgeSet(progress'[p]) \/ resetUserProgress(p)]_vars

\* C10 witness: a player holds the scholar badge although the catalog now has
\* an academic treasure the player has not unlocked.
C10_Witness ==
    \E p \in Players, t \in TreasureIds :
        /\ "scholar" \in BadgeSet(progress[p])
        /\ catalog[t].present /\ catalog[t].category = "academic"
        /\ ~includes(progress[p].unlockedTreasures, t)

C12_MasterMeansAll ==
    [][\A r \in Reqs :
        (/\ Unlocking(r, "save") /\ Stepped(r)
         /\ "master" \notin BadgeSet(progress[req[r].user])
         /\ "master" \in BadgeSet(progress'[req[r].user]))
        => /\ CatalogIds(catalog') # {}
           /\ CatalogIds(catalog') \subseteq UnlockedSet(progress'[req[r].user])]_vars

\* C13: over the seeded catalog (100/150/80/200/120 points, academic/academic/
\* social/history/sports), a player whose unlocked treasures are the two
\* academic ones holds explorer and scholar and not master; a player who has
\* unlocked all five, in whatever order, has 650 points, level 4 and master.
C13_SeededScenario ==
    \A p \in Players :
        /\ UnlockedSet(progress[p]) = CategoryIds(SeededCatalog, "academic")
           => /\ {"explorer", "scholar"} \subseteq BadgeSet(progress[p])
              /\ "master" \notin BadgeSet(progress[p])
        /\ UnlockedSet(progress[p]) = CatalogIds(SeededCatalog)
           => /\ progress[p].totalPoints = 650
              /\ progress[p].level = 4
              /\ "master" \in BadgeSet(progress[p])

\* C13 witness: a player has unlocked all five seeded treasures, an academic
\* one last.
C13_Witness ==
    \E r \in Reqs :
        /\ Answered(r, "Awarded")
        /\ req[r].treasureId \in CategoryIds(SeededCatalog, "academic")
        /\ UnlockedSet(progress[req[r].user]) = CatalogIds(SeededCatalog)
        /\ progress[req[r].user].totalPoints = 650

\* C14 as stated: a step changes the gameplay fields of a player's stored
\* progress document only if it is the save of an unlock request of that
\* player or the administrative reset of that player.
C14_OnlyUnlockOrReset ==
    [][\A p \in Players :
        (progress[p].exists /\ Gameplay(progress'[p]) # Gameplay(progress[p]))
        => \/ \E r \in Reqs : Unlocking(r, "save") /\ req[r].user = p /\ Stepped(r)
           \/ resetUserProgress(p)]_vars

\* C14 amended: a step changes the gameplay fields of a player's stored
\* progress document only if it is the save of an unlock request of that
\* player, the administrative reset of that player, or the $pull of the
\* admin deleteTreasure, which takes the deleted treasure out of
\* unlockedTreasures and leaves totalPoints, level and badges as they were.
C14_OnlyUnlockResetOrPull ==
    [][\A p \in Players :
        (progress[p].exists /\ Gameplay(progress'[p]) # Gameplay(progress[p]))
        => \/ \E r \in Reqs : Unlocking(r, "save") /\ req[r].user = p /\ Stepped(r)
           \/ resetUserProgress(p)
           \/ /\ adminDel.pc = "pull" /\ adminDel'.pc = "remove"
              /\ progress'[p] = [progress[p] EXCEPT
                                   !.unlockedTreasures = pull(@, adminDel.id)]]_vars

\* C14 witness: a player with an unlocked treasure saved a mission briefing,
\* and the admin deleteTreasure then took the treasure out of the player's
\* list, the points staying.
C14_Witness ==
    \E p \in Players :
        /\ adminDel.pc = "remove"
        /\ progress[p].missionBriefing \in BriefingChoices
        /\ UnlockedSet(progress[p]) = {}
        /\ progress[p].totalPoints > 0

\* C15: a getProgress request that finds a progress document is answered
\* with that document and changes no document; one that finds none does not
\* write before its create, and its create, for a player still without a
\* document, stores and returns a document with no unlocked treasure, 0
\* points, level 1 and no badge, the other players' documents unchanged.
C15_GetProgress ==
    [][\A r \in Reqs :
        LET p == req[r].user IN
        /\ (req[r].op = "get" /\ req[r].pc = "findProgress" /\ Stepped(r))
           => /\ progress' = progress
              /\ IF progress[p].exists
                 THEN /\ req'[r].pc = "done" /\ req'[r].outcome = "Ok"
                      /\ req'[r].doc = progress[p]
                 ELSE req'[r].pc = "create"
        /\ (req[r].op = "get" /\ req[r].pc = "create" /\ Stepped(r)
            /\ ~progress[p].exists)
           => /\ req'[r].pc = "done" /\ req'[r].outcome = "Ok"
              /\ req'[r].doc = progress'[p]
              /\ progress'[p].exists
              /\ length(progress'[p].unlockedTreasures) = 0
              /\ progress'[p].totalPoints = 0
              /\ progress'[p].level = 1
              /\ length(progress'[p].badges) = 0
              /\ \A q \in Players \ {p} : progress'[q] = progress[q]]_vars

\* C15 witness: one getProgress was answered with a document it created, and
\* another with a document that holds an unlocked treasure.
C15_Witness ==
    \E r1, r2 \in Reqs :
        /\ req[r1].op = "get" /\ req[r1].pc = "done" /\ req[r1].outcome = "Ok"
        /\ req[r1].user = "p2" /\ req[r1].doc = FreshRecord
        /\ req[r2].op = "get" /\ req[r2].pc = "done" /\ req[r2].outcome = "Ok"
        /\ req[r2].doc.totalPoints > 0

\* C16: no progress request is answered with an error: a request that found
\* no document for its player succeeds although another request of the player
\* created the document first.
C16_NoRequestFails ==
    \A r \in Reqs : req[r].pc = "done" => req[r].outcome # "Error"

\* C17: the administrative reset of a player with a progress document leaves
\* the document with no unlocked treasure, 0 points, level 1 and no badge,
\* whatever it held; and an unlock request that reads a document in that
\* state is not turned away: it goes on to award its treasure, crediting the
\* treasure's points.
C17_ResetToInitial ==
    [][/\ \A p \in Players :
            resetUserProgress(p)
            => /\ progress'[p].exists
               /\ length(progress'[p].unlockedTreasures) = 0
               /\ progress'[p].totalPoints = 0
               /\ progress'[p].level = 1
               /\ length(progress'[p].badges) = 0
       /\ \A r \in Reqs :
            (/\ Unlocking(r, "findProgress") /\ Stepped(r)
             /\ progress[req[r].user].exists
             /\ length(progress[req[r].user].unlockedTreasures) = 0
             /\ progress[req[r].user].totalPoints = 0)
            => /\ req'[r].pc = "findAcademic"
               /\ includes(req'[r].doc.unlockedTreasures, req[r].treasureId)
               /\ req'[r].doc.totalPoints = req[r].treasurePoints]_vars

\* C17 witness: two unlock requests of one player for the same treasure were
\* both answered Awarded with a reset of the player between their saves: the
\* document holds the treasure once, with the points of the second award.
C17_Witness ==
    \E r1, r2 \in Reqs :
        /\ r1 # r2 /\ ~catalogChanged
        /\ Answered(r1, "Awarded") /\ Answered(r2, "Awarded")
        /\ req[r1].user = req[r2].user /\ req[r1].treasureId = req[r2].treasureId
        /\ progress[req[r1].user].unlockedTreasures[req[r1].treasureId] = 1
        /\ progress[req[r1].user].totalPoints = catalog[req[r1].treasureId].points

\* C18: with the catalog unchanged and each player's own unlock requests
\* served one after another, under every interleaving with the other
\* player's requests: no step of a player's unlock request changes the other
\* player's progress document; a request is answered AlreadyUnlocked exactly
\* when its treasure is in its player's list when it reads it, and never with
\* an error; and every document is the one its own unlocked treasures
\* determine (each once, their points, the level of the points, the badges
\* of the rules).
C18_PlayersIndependent ==
    [][\A r \in Reqs :
        LET p == req[r].user IN
        /\ (req[r].op = "unlock" /\ Stepped(r))
           => /\ \A q \in Players \ {p} : progress'[q] = progress[q]
              /\ req'[r].outcome # "Error"
        /\ (Unlocking(r, "findProgress") /\ Stepped(r) /\ progress[p].exists)
           => (req'[r].outcome = "AlreadyUnlocked"
               <=> includes(progress[p].unlockedTreasures, req[r].treasureId))
        /\ (Unlocking(r, "save") /\ Stepped(r))
           => /\ progress'[p].unlockedTreasures[req[r].treasureId] = 1
              /\ \A t \in TreasureIds : progress'[p].unlockedTreasures[t] <= 1
              /\ progress'[p].totalPoints = SumPoints(progress'[p], catalog)
              /\ progress'[p].level = (progress'[p].totalPoints \div PointsPerLevel) + 1
              /\ BadgeSet(progress'[p]) =
                    BadgeEvaluator(progress'[p].unlockedTreasures, catalog)]_vars

\* C18 witness: one player's unlock was saved while the other player's unlock
\* of the same treasure, which read its document before that save, waits to
\* save.
C18_Witness ==
    \E r1, r2 \in Reqs :
        /\ Unlocking(r1, "populate") /\ Unlocking(r2, "save")
        /\ req[r1].user # req[r2].user
        /\ req[r1].treasureId = req[r2].treasureId
        /\ progress[req[r1].user].totalPoints > 0
        /\ progress[req[r2].user].totalPoints = 0

\* C19: for the selected treasure the scan button is enabled exactly when
\* there is a position fix and the treasure is less than 50 m away (at 50 m it
\* is disabled); without a fix every distance is Infinity and no treasure is
\* near; and the Scanner opens only by a tap on the enabled button, so that
\* it is never open without a fix.
C19_ScanGate ==
    /\ [](/\ app.selectedTreasure # NoSelection
             => (~ScanButtonDisabled
                 <=> /\ app.userLocation.fix
                     /\ app.userLocation.latitude - app.selectedTreasure.latitude < 50
                     /\ app.selectedTreasure.latitude - app.userLocation.latitude < 50)
          /\ ~app.userLocation.fix
             => \A t \in ClientTreasures : getDistanceTo(t) = Infinity /\ ~isNear(t)
          /\ app.isScannerOpen => app.userLocation.fix)
    /\ [][(~app.isScannerOpen /\ app'.isScannerOpen)
            => /\ app.userLocation.fix
               /\ app.userLocation.latitude - app.selectedTreasure.latitude < 50
               /\ app.selectedTreasure.latitude - app.userLocation.latitude < 50]_vars

\* C19 witness: the Scanner was opened for a treasure, and the player then
\* moved to exactly 50 m from it: the button of that treasure is disabled.
C19_Witness ==
    /\ app.isScannerOpen
    /\ app.selectedTreasure # NoSelection
    /\ getDistanceTo(app.selectedTreasure) = Meters(50)
    /\ ScanButtonDisabled

\* C20: a frame with a non-empty decoded payload is classified in exactly one
\* way.  Match (the code is verified, success set, the payload's id kept)
\* exactly when the payload is 'geohunt:' followed by the target id, letter
\* case included; Malformed ("Not a GeoHunt QR code") exactly when the
\* payload does not start with 'geohunt:'; Mismatch (wrong code) in all other
\* cases, that is when the payload starts with 'geohunt:' and the rest is not
\* the target id.
C20_Classification ==
    [][(scanner'.frames # scanner.frames /\ scanner'.data # <<>>)
        => LET data == scanner'.data
               hasPrefix == /\ Len(data) >= Len(Namespace)
                            /\ \A i \in 1..Len(Namespace) : data[i] = Namespace[i]
               isTarget == data = Namespace \o scanner.targetId
               Match == scanner'.statusMessage = "QR Code detected!"
               Mismatch == scanner'.statusMessage = "Wrong QR code! Find the right marker."
               Malformed == scanner'.statusMessage = "Not a GeoHunt QR code"
           IN  /\ Match \/ Mismatch \/ Malformed
               /\ Match <=> isTarget
               /\ Mismatch <=> (hasPrefix /\ ~isTarget)
               /\ Malformed <=> ~hasPrefix
               /\ Match => /\ scanner'.success
                           /\ scanner'.scannedCode = scanner.targetId
               /\ Mismatch => scanner'.wrongCode /\ ~scanner'.success
               /\ Malformed => ~scanner'.success]_vars

\* C20 witness: a session saw a payload that is not a game code, then the
\* code of another treasure, then the code of its target, and verified it.
C20_Witness ==
    /\ scanner.success
    /\ scanner.frames = 3
    /\ scanner.resetTimers > 0
    /\ scanner.data = Namespace \o scanner.targetId
    /\ scanner.scannedCode = scanner.targetId

\* C21: once the Scanner is closed, no frame callback stays scheduled and no
\* camera stream that was acquired is left running, in whatever state the
\* close found the session (a camera request still pending, Start Scanning
\* tapped more than once).
C21_ClosedReleasesCamera ==
    scanner.closed => (~scanner.animationRef /\ scanner.streams = 0)

\* C22: a session whose camera request was granted (none was denied) becomes
\* CameraActive: the video has the stream and its handler, or the frame loop
\* is already started.
C22_GrantStartsCamera ==
    (scanner.streams > 0 /\ ~scanner.closed /\ ~scanner.cameraError)
        => (scanner.onloadedmetadata \/ scanner.scanning)

\* C23: once a camera request has failed, the session simulates: it is
\* scanning with the status "Simulating scan...", and unless the Scanner is
\* closed it reaches Accepted (success) and calls onScan with the id of its
\* target treasure.
C23_DeniedSimulates ==
    /\ [](scanner.cameraError
            => scanner.scanning /\ scanner.statusMessage = "Simulating scan...")
    /\ scanner.cameraError
         ~> (\/ scanner.closed
             \/ /\ scanner.success
                /\ \E i \in 1..Len(scanner.onScanCalls) :
                      scanner.onScanCalls[i] = scanner.targetId)

\* C23 witness: the camera request of an open session failed, and the
\* simulation accepted and requested the unlock of the target.
C23_Witness ==
    /\ scanner.cameraError
    /\ ~scanner.closed
    /\ scanner.streams = 0
    /\ scanner.success
    /\ scanner.onScanCalls = <<scanner.targetId>>

C25_OnlyAcceptedTarget ==
    /\ [](/\ \A i \in 1..Len(scanner.onScanCalls) :
                scanner.onScanCalls[i] = scanner.targetId
          /\ (scanner.onScanTimer \/ scanner.simulationScanTimers > 0)
                => scanner.success)
    /\ [][/\ scanner'.onScanCalls # scanner.onScanCalls => scanner.success
          /\ (/\ scanner'.frames # scanner.frames
              /\ scanner'.data # Namespace \o scanner.targetId)
                => /\ scanner'.onScanCalls = scanner.onScanCalls
                   /\ scanner'.onScanTimer = scanner.onScanTimer
                   /\ scanner'.success = scanner.success]_vars

\* C25 witness: a session in camera mode saw the code of another treasure and
\* then the code of its target, and has called onScan once, with the target.
C25_Witness ==
    /\ ~scanner.cameraError
    /\ scanner.resetTimers > 0
    /\ scanner.data = Namespace \o scanner.targetId
    /\ scanner.onScanCalls = <<scanner.targetId>>

\* C26: in every reachable state, every id in a player's unlockedTreasures
\* names a treasure of the catalog, whichever route deleted a treasure and
\* however the deletion interleaved with an unlock in flight.
C26_NoOrphans ==
    \A p \in Players :
        progress[p].exists => UnlockedSet(progress[p]) \subseteq CatalogIds(catalog)

\* C27: when unlockTreasure has answered with an error (NotFound,
\* AlreadyUnlocked, or a failure of one of its database operations), the
\* player's stored unlockedTreasures, totalPoints, level and badges are those
\* the request read: nothing of an award is persisted.
C27_ErrorPersistsNothing ==
    \A r \in Reqs :
        (/\ req[r].op = "unlock" /\ req[r].pc = "done"
         /\ req[r].outcome \in {"NotFound", "AlreadyUnlocked", "Error"})
            => (req[r].snap.exists
                    => Gameplay(progress[req[r].user]) = Gameplay(req[r].snap))

\* C28: once the Scanner has been closed, the session makes no call of
\* onScan.
C28_NoScanAfterClose ==
    [][scanner.closed => scanner'.onScanCalls = scanner.onScanCalls]_vars

\* C29: one Scanner session calls onScan at most once.
C29_AtMostOneScan == Len(scanner.onScanCalls) <= 1

\* C30: while only callers that are not admins send catalog requests
\* (create, update, delete, through either router), no step changes the
\* catalog or a progress record.
C30_OnlyAdminsChangeCatalog ==
    [][catalog' = catalog /\ progress' = progress]_vars

====
